---- MODULE Spec2Model ----
(***************************************************************************)
(* kobo2calibre: translation of Kobo highlights into calibre annotations.  *)
(*                                                                         *)
(* Strings are sequences of one-character strings; a non-ASCII character   *)
(* is written as the token "U+XXXX".  A parsed document is a sequence of   *)
(* node records, a node's identity is its index, node 1 is the             *)
(* BeautifulSoup object.  A Python exception is a result with ok = FALSE   *)
(* (or the node 0 where a node is returned).                               *)
(***************************************************************************)
EXTENDS Integers, Sequences, FiniteSets, TLC

VARIABLES
    \* the CFI engine
    cfi_pc, cfi_doc, cfi_node, cfi_offset, cfi_str, cfi_result, cfi_steps, cfi_trace,
    \* get_prev_sentences_offset
    sent_pc, sent_text, sent_n, sent_result,
    \* tokenize_epub_sentences
    tok_pc, tok_text, tok_regex_result, tok_i, tok_result,
    \* convert_offset_prog1_to_prog2
    off_pc, off_plain, off_text, off_fn, off_offset, off_result,
    \* the stores and a run of main
    kobo_db, metadata, annotations, bookmarks, to_insert, main_pc, main_i, clock, run,
    last_result, translated, store_before, last_batch, returned

cfiVars ==
    <<cfi_pc, cfi_doc, cfi_node, cfi_offset, cfi_str, cfi_result, cfi_steps, cfi_trace>>

sentVars == <<sent_pc, sent_text, sent_n, sent_result>>

tokVars == <<tok_pc, tok_text, tok_regex_result, tok_i, tok_result>>

offVars == <<off_pc, off_plain, off_text, off_fn, off_offset, off_result>>

mainVars ==
    <<kobo_db, metadata, annotations, bookmarks, to_insert, main_pc, main_i, clock, run,
      last_result, translated, store_before, last_batch, returned>>

vars == <<cfiVars, sentVars, tokVars, offVars, mainVars>>

notCfi == <<sentVars, tokVars, offVars, mainVars>>

notSent == <<cfiVars, tokVars, offVars, mainVars>>

notTok == <<cfiVars, sentVars, offVars, mainVars>>

notOff == <<cfiVars, sentVars, tokVars, mainVars>>

notMain == <<cfiVars, sentVars, tokVars, offVars>>

---------------------------------------------------------------------------
(* Python built-ins on strings and integers *)

DigitChars == <<"0", "1", "2", "3", "4", "5", "6", "7", "8", "9">>

IsDigit(c) == \E i \in 1..10 : DigitChars[i] = c

DigitVal(c) == (CHOOSE i \in 1..10 : DigitChars[i] = c) - 1

\* str(n) of a non-negative int, as an f-string formats it
RECURSIVE format_int(_)
format_int(n) ==
    IF n < 10 THEN <<DigitChars[n + 1]>>
    ELSE format_int(n \div 10) \o <<DigitChars[(n % 10) + 1]>>

\* int(s) succeeds on a non-empty run of decimal digits (ValueError otherwise)
IsIntLiteral(s) == s # <<>> /\ \A i \in 1..Len(s) : IsDigit(s[i])

RECURSIVE IntValue(_)
IntValue(s) ==
    IF s = <<>> THEN 0
    ELSE 10 * IntValue(SubSeq(s, 1, Len(s) - 1)) + DigitVal(s[Len(s)])

\* s.find(c) + 1: the 1-based index of the first c in s, 0 when absent
IndexOf(s, c) ==
    IF \E i \in 1..Len(s) : s[i] = c
    THEN CHOOSE i \in 1..Len(s) : s[i] = c /\ \A j \in 1..(i - 1) : s[j] # c
    ELSE 0

\* F applied to the value of v: a local variable, assigned once and then read
With(v, F(_)) == CHOOSE r \in {F(x) : x \in {v}} : TRUE

\* s.split(c)
RECURSIVE split(_, _)
split(s, c) ==
    With(IndexOf(s, c), LAMBDA i :
        IF i = 0 THEN <<s>>
        ELSE <<SubSeq(s, 1, i - 1)>>
             \o With(SubSeq(s, i + 1, Len(s)), LAMBDA rest : split(rest, c)))

\* s.lstrip(c)
RECURSIVE lstrip(_, _)
lstrip(s, c) == IF s # <<>> /\ s[1] = c THEN lstrip(Tail(s), c) ELSE s

RECURSIVE Reverse(_)
Reverse(s) == IF s = <<>> THEN <<>> ELSE Reverse(Tail(s)) \o <<s[1]>>

---------------------------------------------------------------------------
(* Characters, the unicode_escape codec and UTF-8 *)

\* the printable ASCII characters, code points 32..126 in order (the grave accent,
\* which a TLA+ string cannot hold, is written U+0060)
AsciiChars ==
    <<
       " ", "!", "\"", "#", "$", "%", "&", "'", "(", ")", "*", "+", ",", "-", ".", "/",
       "0", "1", "2", "3", "4", "5", "6", "7", "8", "9", ":", ";", "<", "=", ">", "?",
       "@", "A", "B", "C", "D", "E", "F", "G", "H", "I", "J", "K", "L", "M", "N", "O",
       "P", "Q", "R", "S", "T", "U", "V", "W", "X", "Y", "Z", "[", "\\", "]", "^", "_",
       "U+0060", "a", "b", "c", "d", "e", "f", "g", "h", "i", "j", "k", "l", "m", "n", "o",
       "p", "q", "r", "s", "t", "u", "v", "w", "x", "y", "z", "{", "|", "}", "~"
    >>

\* the non-ASCII characters of the model's texts
NonAsciiChars == {"U+00A0", "U+00E9", "U+0416", "U+201C", "U+201D", "U+20AC"}

\* ord(c)
Ord(c) ==
    CASE c = "\n" -> 10
      [] c = "\t" -> 9
      [] c = "U+00A0" -> 160
      [] c = "U+00E9" -> 233
      [] c = "U+0416" -> 1046
      [] c = "U+201C" -> 8220
      [] c = "U+201D" -> 8221
      [] c = "U+20AC" -> 8364
      [] OTHER -> 31 + (CHOOSE i \in 1..Len(AsciiChars) : AsciiChars[i] = c)

\* chr(n), for the code points of the model's characters
Chr(n) ==
    CASE n = 10 -> "\n"
      [] n = 9 -> "\t"
      [] n = 160 -> "U+00A0"
      [] n = 233 -> "U+00E9"
      [] n = 1046 -> "U+0416"
      [] n = 8220 -> "U+201C"
      [] n = 8221 -> "U+201D"
      [] n = 8364 -> "U+20AC"
      [] OTHER -> AsciiChars[n - 31]

HexChars ==
    <<"0", "1", "2", "3", "4", "5", "6", "7", "8", "9", "a", "b", "c", "d", "e", "f">>

IsHex(c) == \E i \in 1..16 : HexChars[i] = c

HexVal(c) == (CHOOSE i \in 1..16 : HexChars[i] = c) - 1

\* s[:k] for k >= 0
Prefix(s, k) == SubSeq(s, 1, IF k < Len(s) THEN k ELSE Len(s))

\* one character of str.encode("unicode_escape").decode("ascii")
escape_char(c) ==
    LET n == Ord(c)
    IN  CASE c = "\\" -> <<"\\", "\\">>
          [] n = 10 -> <<"\\", "n">>
          [] n = 9 -> <<"\\", "t">>
          [] n >= 32 /\ n < 127 /\ c # "\\" -> <<c>>
          [] n >= 127 /\ n < 256 ->
                <<"\\", "x", HexChars[(n \div 16) + 1], HexChars[(n % 16) + 1]>>
          [] OTHER ->
                <<"\\", "u", HexChars[(n \div 4096) + 1], HexChars[((n \div 256) % 16) + 1],
                  HexChars[((n \div 16) % 16) + 1], HexChars[(n % 16) + 1]>>

\* str(node).encode("unicode_escape").decode("ascii")
RECURSIVE unicode_escape_encode(_)
unicode_escape_encode(text) ==
    IF text = <<>> THEN <<>>
    ELSE escape_char(text[1]) \o unicode_escape_encode(Tail(text))

\* text.encode("ascii") raises UnicodeEncodeError on a non-ASCII character
IsAsciiText(text) == \A i \in 1..Len(text) : text[i] \notin NonAsciiChars

AllHex(s) == \A i \in 1..Len(s) : IsHex(s[i])

\* bytes.decode("unicode_escape"): [ok, value]; ok = FALSE is UnicodeDecodeError
\* (a trailing backslash, or a \x or \u escape with too few hex digits).  Covers the
\* escapes unicode_escape_encode emits and their prefixes; a backslash before any
\* other character of the model's texts stays as it is.
RECURSIVE unicode_escape_decode_from(_, _)
unicode_escape_decode_from(s, decoded) ==
    IF s = <<>> THEN [ok |-> TRUE, value |-> decoded]
    ELSE IF s[1] # "\\" THEN unicode_escape_decode_from(Tail(s), Append(decoded, s[1]))
    ELSE IF Len(s) = 1 THEN [ok |-> FALSE, value |-> <<>>]
    ELSE
        LET e == s[2]
            width == CASE e = "x" -> 2 [] e = "u" -> 4 [] OTHER -> 0
            digits == SubSeq(s, 3, 2 + width)
            wellFormed == Len(s) >= 2 + width /\ AllHex(digits)
            head == CASE e = "\\" -> <<"\\">>
                      [] e = "n" -> <<"\n">>
                      [] e = "t" -> <<"\t">>
                      [] e = "x" -> <<Chr(16 * HexVal(digits[1]) + HexVal(digits[2]))>>
                      [] e = "u" -> <<Chr(4096 * HexVal(digits[1]) + 256 * HexVal(digits[2])
                                          + 16 * HexVal(digits[3]) + HexVal(digits[4]))>>
                      [] OTHER -> <<"\\", e>>
        IN  IF ~wellFormed THEN [ok |-> FALSE, value |-> <<>>]
            ELSE unicode_escape_decode_from(SubSeq(s, 3 + width, Len(s)), decoded \o head)

unicode_escape_decode(s) == With(s, LAMBDA text : unicode_escape_decode_from(text, <<>>))

\* one character of str.encode("utf-8"), as byte values
utf8_char(c) ==
    LET n == Ord(c)
    IN  IF n < 128 THEN <<n>>
        ELSE IF n < 2048 THEN <<192 + (n \div 64), 128 + (n % 64)>>
        ELSE <<224 + (n \div 4096), 128 + ((n \div 64) % 64), 128 + (n % 64)>>

RECURSIVE utf8_encode(_)
utf8_encode(text) ==
    IF text = <<>> THEN <<>> ELSE utf8_char(text[1]) \o utf8_encode(Tail(text))

\* bytes.decode("utf-8"): [ok, value]; ok = FALSE is UnicodeDecodeError
\* (a multi-byte character cut short, or a stray continuation byte)
RECURSIVE utf8_decode_from(_, _)
utf8_decode_from(b, decoded) ==
    IF b = <<>> THEN [ok |-> TRUE, value |-> decoded]
    ELSE
        LET lead == b[1]
            width == IF lead < 128 THEN 1
                     ELSE IF lead >= 192 /\ lead < 224 THEN 2
                     ELSE IF lead >= 224 /\ lead < 240 THEN 3
                     ELSE 0
            wellFormed ==
                /\ width > 0
                /\ Len(b) >= width
                /\ \A i \in 2..width : b[i] >= 128 /\ b[i] < 192
            n == CASE width = 1 -> lead
                   [] width = 2 -> 64 * (lead - 192) + (b[2] - 128)
                   [] OTHER -> 4096 * (lead - 224) + 64 * (b[2] - 128) + (b[3] - 128)
        IN  IF ~wellFormed THEN [ok |-> FALSE, value |-> <<>>]
            ELSE utf8_decode_from(SubSeq(b, width + 1, Len(b)), Append(decoded, Chr(n)))

utf8_decode(b) == With(b, LAMBDA bytes : utf8_decode_from(bytes, <<>>))

\* a conversion that returns the length of the byte prefix without decoding it
convert_offset_counting_bytes(text_prog1, has_offset, offset_prog1) ==
    With(unicode_escape_decode(text_prog1), LAMBDA decoded_text :
    With(utf8_encode(decoded_text.value), LAMBDA decoded_substring :
    With(IF has_offset THEN Prefix(decoded_substring, offset_prog1) ELSE decoded_substring,
         LAMBDA substring_prog1 :
        IF ~IsAsciiText(text_prog1) \/ ~decoded_text.ok
        THEN [ok |-> FALSE, value |-> 0]
        ELSE [ok |-> TRUE, value |-> Len(substring_prog1)])))

\* converter.convert_offset_prog1_to_prog2: [ok, value]; ok = FALSE is an exception.
\* has_offset = FALSE is offset_prog1 = None (the slice keeps everything).
convert_offset_prog1_to_prog2(text_prog1, has_offset, offset_prog1) ==
    With(unicode_escape_decode(text_prog1), LAMBDA decoded_text :
    With(utf8_encode(decoded_text.value), LAMBDA decoded_substring :
    With(IF has_offset THEN Prefix(decoded_substring, offset_prog1) ELSE decoded_substring,
         LAMBDA substring_prog1 :
    With(utf8_decode(substring_prog1), LAMBDA decoded :
        IF ~IsAsciiText(text_prog1) \/ ~decoded_text.ok \/ ~decoded.ok
        THEN [ok |-> FALSE, value |-> 0]
        ELSE [ok |-> TRUE, value |-> Len(decoded.value)]))))

\* test.convert_offset_prog1_to_prog2: [ok, value]; ok = FALSE is an exception
test_convert_offset_prog1_to_prog2(text_prog1, offset_prog1) ==
    With(Prefix(text_prog1, offset_prog1), LAMBDA substring_prog1 :
    With(unicode_escape_decode(substring_prog1), LAMBDA decoded_substring :
        IF ~IsAsciiText(substring_prog1) \/ ~decoded_substring.ok
        THEN [ok |-> FALSE, value |-> 0]
        ELSE [ok |-> TRUE, value |-> Len(decoded_substring.value)]))

---------------------------------------------------------------------------
(* bs4 document trees *)

Node(kind, name, text, children) ==
    [kind |-> kind, name |-> name, text |-> text, children |-> children]

Soup(children) == Node("BeautifulSoup", "[document]", <<>>, children)
Tag(name, children) == Node("Tag", name, <<>>, children)
NavigableString(text) == Node("NavigableString", "", text, <<>>)
Comment(text) == Node("Comment", "", text, <<>>)
ProcessingInstruction(text) == Node("ProcessingInstruction", "", text, <<>>)

TextHello ==
    <<"H", "e", "l", "l", "o", " ", "w", "o", "r", "l", "d", ".", " ",
      "T", "h", "i", "s", " ", "i", "s", " ", "a", " ", "t", "e", "s", "t", ".">>

\* <body><p>Hello world. This is a test.</p></body>
DocScenario ==
    << Soup(<<2>>), Tag("body", <<3>>), Tag("p", <<4>>), NavigableString(TextHello) >>

\* <html><head></head><body><p>ab</p><p>ab</p></body></html>
DocHtml ==
    << Soup(<<2>>), Tag("html", <<3, 4>>), Tag("head", <<>>), Tag("body", <<5, 7>>),
       Tag("p", <<6>>), NavigableString(<<"a", "b">>),
       Tag("p", <<8>>), NavigableString(<<"a", "b">>) >>

\* "\n<body>\n<p>a. b</p>\n<p>cd</p>\n</body>": no <html>, so the whole soup is kept
DocWs ==
    << Soup(<<2, 3>>), NavigableString(<<"\n">>), Tag("body", <<4, 5, 7, 8, 10>>),
       NavigableString(<<"\n">>),
       Tag("p", <<6>>), NavigableString(<<"a", ".", " ", "b">>),
       NavigableString(<<"\n">>),
       Tag("p", <<9>>), NavigableString(<<"c", "d">>),
       NavigableString(<<"\n">>) >>

\* <html><body><!--c--><p>ab</p><figure><p>xy</p></figure> <p>U+0416bU+20AC</p><?pi?></body></html>
DocMixed ==
    << Soup(<<2>>), Tag("html", <<3>>), Tag("body", <<4, 5, 7, 10, 11, 13>>),
       Comment(<<"c">>),
       Tag("p", <<6>>), NavigableString(<<"a", "b">>),
       Tag("figure", <<8>>), Tag("p", <<9>>), NavigableString(<<"x", "y">>),
       NavigableString(<<" ">>),
       Tag("p", <<12>>), NavigableString(<<"U+0416", "b", "U+20AC">>),
       ProcessingInstruction(<<"p", "i">>) >>

\* <body>ab<b>cd</b>ab<i>ef</i></body>
DocInline ==
    << Soup(<<2>>), Tag("body", <<3, 4, 6, 7>>),
       NavigableString(<<"a", "b">>),
       Tag("b", <<5>>), NavigableString(<<"c", "d">>),
       NavigableString(<<"a", "b">>),
       Tag("i", <<8>>), NavigableString(<<"e", "f">>) >>

\* <body><figure>x</figure> <p>y</p></body>
DocFigure ==
    << Soup(<<2>>), Tag("body", <<3, 5, 6>>),
       Tag("figure", <<4>>), NavigableString(<<"x">>),
       NavigableString(<<" ">>),
       Tag("p", <<7>>), NavigableString(<<"y">>) >>

Docs == <<DocScenario, DocHtml, DocWs, DocMixed, DocInline, DocFigure>>

Root == 1

NodeIds(doc) == 1..Len(doc)

\* node.parent (0 is None)
parent(doc, n) ==
    IF \E p \in NodeIds(doc) : \E i \in 1..Len(doc[p].children) : doc[p].children[i] = n
    THEN CHOOSE p \in NodeIds(doc) : \E i \in 1..Len(doc[p].children) : doc[p].children[i] = n
    ELSE 0

\* list(node.parents): nearest ancestor first, the BeautifulSoup object last
RECURSIVE parents(_, _)
parents(doc, n) ==
    With(parent(doc, n), LAMBDA p : IF p = 0 THEN <<>> ELSE <<p>> \o parents(doc, p))

IsTag(doc, n) == doc[n].kind \in {"Tag", "BeautifulSoup"}

\* isinstance(node, NavigableString): Comment and ProcessingInstruction are subclasses
IsNavigableString(doc, n) ==
    doc[n].kind \in {"NavigableString", "Comment", "ProcessingInstruction"}

\* a == b on bs4 nodes: strings compare by value, tags by name and contents
RECURSIVE NodeEq(_, _, _)
NodeEq(doc, a, b) ==
    \/ a = b
    \/ /\ IsNavigableString(doc, a) /\ IsNavigableString(doc, b)
       /\ doc[a].text = doc[b].text
    \/ /\ IsTag(doc, a) /\ IsTag(doc, b)
       /\ doc[a].name = doc[b].name
       /\ Len(doc[a].children) = Len(doc[b].children)
       /\ \A i \in 1..Len(doc[a].children) :
              \E x \in {doc[a].children[i]} : \E y \in {doc[b].children[i]} :
                  NodeEq(doc, x, y)

\* the 1-based index of the first element of nodes that == target, 0 when none
FirstEq(doc, nodes, target) ==
    IF \E i \in 1..Len(nodes) : NodeEq(doc, nodes[i], target)
    THEN CHOOSE i \in 1..Len(nodes) :
             /\ NodeEq(doc, nodes[i], target)
             /\ \A j \in 1..(i - 1) : ~NodeEq(doc, nodes[j], target)
    ELSE 0

---------------------------------------------------------------------------
(* converter.py: the CFI decoder, the CFI encoder and the conversion *)

\* [ok, steps, has_offset, char_offset]; ok = FALSE is int()'s ValueError,
\* has_offset = FALSE is char_offset = None
parse_system1_cfi(cfi) ==
    With(lstrip(cfi, "/"), LAMBDA stripped :
    With(IndexOf(stripped, ":"), LAMBDA colon :
        LET path_part == IF colon > 0 THEN SubSeq(stripped, 1, colon - 1) ELSE stripped
            offset_str == IF colon > 0 THEN SubSeq(stripped, colon + 1, Len(stripped)) ELSE <<>>
        IN  With(SelectSeq(split(path_part, "/"), LAMBDA x : x # <<>>), LAMBDA parts :
                LET ok == /\ colon > 0 => IsIntLiteral(offset_str)
                          /\ \A k \in 1..Len(parts) : IsIntLiteral(parts[k])
                IN  IF ~ok
                    THEN [ok |-> FALSE, steps |-> <<>>, has_offset |-> FALSE, char_offset |-> 0]
                    ELSE [ok |-> TRUE,
                          steps |-> [k \in 1..Len(parts) |-> IntValue(parts[k])],
                          has_offset |-> colon > 0,
                          char_offset |-> IF colon > 0 THEN IntValue(offset_str) ELSE 0])))

\* hasattr(node, "children")
has_children(doc, n) == IsTag(doc, n)

\* bool(node): None and the empty string are false, a Tag is always true
truthy(doc, n) == n # 0 /\ (IsTag(doc, n) \/ doc[n].text # <<>>)

\* no climbing: a node without children is left as it is
stay(doc, current) == current

\* while current and not hasattr(current, "children"): current = current.parent
RECURSIVE climb(_, _)
climb(doc, current) ==
    IF truthy(doc, current) /\ ~has_children(doc, current)
    THEN With(parent(doc, current), LAMBDA p : climb(doc, p))
    ELSE current

\* a child list that keeps comments and processing instructions
all_children(doc, n) == doc[n].children

\* a child list under the filters of the device-path walker: no whitespace-only
\* text, no <figure>
filtered_children(doc, n) ==
    SelectSeq(doc[n].children,
              LAMBDA c : /\ doc[c].kind \notin {"Comment", "ProcessingInstruction"}
                         /\ doc[c].name # "figure"
                         /\ doc[c].kind = "NavigableString"
                                => doc[c].text \notin {<<" ">>, <<"\n">>})

significant_children(doc, n) ==
    SelectSeq(doc[n].children,
              LAMBDA c : doc[c].kind \notin {"Comment", "ProcessingInstruction"})

\* a walk without the test idx < 0: a negative index counts from the end of the list
RECURSIVE walk_negative_index(_, _, _)
walk_negative_index(doc, current, steps) ==
    IF steps = <<>> THEN current
    ELSE
        With(climb(doc, current), LAMBDA cur :
            IF ~truthy(doc, cur) \/ ~has_children(doc, cur) THEN 0
            ELSE
                With(significant_children(doc, cur), LAMBDA children :
                    LET idx == steps[1] - 1
                    IN  IF idx >= Len(children) \/ Len(children) + idx < 0 THEN 0
                        ELSE With(Tail(steps), LAMBDA rest :
                                 walk_negative_index(
                                     doc,
                                     children[IF idx < 0 THEN Len(children) + idx + 1
                                              ELSE idx + 1],
                                     rest))))

\* the loop of find_node_by_system1_path from `current`; 0 is ValueError
RECURSIVE walk_system1_path(_, _, _)
walk_system1_path(doc, current, steps) ==
    IF steps = <<>> THEN current
    ELSE
        With(climb(doc, current), LAMBDA cur :
            IF ~truthy(doc, cur) \/ ~has_children(doc, cur) THEN 0
            ELSE
                With(significant_children(doc, cur), LAMBDA children :
                    LET idx == steps[1] - 1
                    IN  IF idx < 0 \/ idx >= Len(children) THEN 0
                        ELSE With(Tail(steps), LAMBDA rest :
                                 walk_system1_path(doc, children[idx + 1], rest))))

find_node_by_system1_path(doc, steps) ==
    With(steps, LAMBDA path : walk_system1_path(doc, Root, path))

tag_children(doc, n) == SelectSeq(doc[n].children, LAMBDA c : doc[c].kind = "Tag")

\* the first loop of encode_cfi, from nodes[node_id] on
RECURSIVE encode_parents(_, _, _, _)
encode_parents(doc, nodes, node_id, target_node) ==
    IF node_id > Len(nodes) THEN <<>>
    ELSE IF NodeEq(doc, nodes[node_id], target_node) THEN <<>>
    ELSE
        With(FirstEq(doc, tag_children(doc, nodes[node_id]), nodes[node_id + 1]),
             LAMBDA child_id :
                (IF child_id > 0 THEN <<"/">> \o format_int(2 * child_id) ELSE <<>>)
                \o With(node_id + 1, LAMBDA next_id :
                       encode_parents(doc, nodes, next_id, target_node)))

\* the second loop of encode_cfi
encode_final(doc, target_node, target_offset) ==
    With(doc[parent(doc, target_node)].children, LAMBDA nodes :
    With(FirstEq(doc, nodes, target_node), LAMBDA current_id :
        IF current_id = 0 THEN <<>>
        ELSE IF IsTag(doc, nodes[current_id])
        THEN <<"/">> \o format_int(current_id) \o <<"/", "1", ":">> \o format_int(target_offset)
        ELSE <<"/">> \o format_int(current_id) \o <<":">> \o format_int(target_offset)))

encode_cfi(doc, target_node, target_offset) ==
    With(Reverse(parents(doc, target_node)) \o <<target_node>>, LAMBDA nodes :
        encode_parents(doc, nodes, 1, target_node)
        \o encode_final(doc, target_node, target_offset))

\* parse_system1_cfi, then find_node_by_system1_path: [ok, node, has_offset, offset]
decode_cfi(doc, cfi) ==
    With(parse_system1_cfi(cfi), LAMBDA parsed :
    With(IF parsed.ok THEN find_node_by_system1_path(doc, parsed.steps) ELSE 0, LAMBDA node :
        [ok |-> parsed.ok /\ node # 0, node |-> node,
         has_offset |-> parsed.has_offset, offset |-> parsed.char_offset]))

\* a conversion without the test that the path ends on a text node
convert_cfi_any_target(doc, cfi_str_system1) ==
    With(decode_cfi(doc, cfi_str_system1), LAMBDA decoded :
        IF ~decoded.ok THEN [ok |-> FALSE, cfi |-> <<>>]
        ELSE
            With(unicode_escape_encode(doc[decoded.node].text), LAMBDA node_ascii_text :
            With(convert_offset_prog1_to_prog2(node_ascii_text, decoded.has_offset,
                                               decoded.offset),
                 LAMBDA char_offset_system2 :
                    IF ~char_offset_system2.ok THEN [ok |-> FALSE, cfi |-> <<>>]
                    ELSE [ok |-> TRUE,
                          cfi |-> encode_cfi(doc, decoded.node, char_offset_system2.value)])))

\* [ok, cfi]; ok = FALSE is an exception
convert_cfi_system1_to_system2(doc, cfi_str_system1) ==
    With(decode_cfi(doc, cfi_str_system1), LAMBDA decoded :
        IF ~decoded.ok THEN [ok |-> FALSE, cfi |-> <<>>]
        ELSE IF ~IsNavigableString(doc, decoded.node) THEN [ok |-> FALSE, cfi |-> <<>>]
        ELSE
            With(unicode_escape_encode(doc[decoded.node].text), LAMBDA node_ascii_text :
            With(convert_offset_prog1_to_prog2(node_ascii_text, decoded.has_offset,
                                               decoded.offset),
                 LAMBDA char_offset_system2 :
                    IF ~char_offset_system2.ok THEN [ok |-> FALSE, cfi |-> <<>>]
                    ELSE [ok |-> TRUE,
                          cfi |-> encode_cfi(doc, decoded.node, char_offset_system2.value)])))

---------------------------------------------------------------------------
(* converter.py: REGEX_KTE and get_prev_sentences_offset *)

\* \s
WhitespaceChars == {" ", "\t", "\n", "U+00A0"}

\* [\.\!\?\:]
TerminatorChars == {".", "!", "?", ":"}

\* [\'"“”‘’…]
QuoteChars == {"'", "\"", "U+201C", "U+201D", "U+2018", "U+2019", "U+2026"}

\* the first index >= p of text that holds no whitespace (Len + 1 when none)
RECURSIVE skip_whitespace(_, _)
skip_whitespace(text, p) ==
    IF p <= Len(text) /\ text[p] \in WhitespaceChars
    THEN skip_whitespace(text, p + 1)
    ELSE p

\* a sentence match that leaves the whitespace after the terminator unmatched
kte_match_end_without_trailing_space(text, p) ==
    LET w == skip_whitespace(text, p)
        terminators == {t \in w..Len(text) : text[t] \in TerminatorChars}
        t == IF terminators = {} THEN 0
             ELSE CHOOSE x \in terminators : \A y \in terminators : x <= y
        crossesNewline == \E i \in w..(t - 1) : text[i] = "\n"
        q == IF t + 1 <= Len(text) /\ text[t + 1] \in QuoteChars THEN t + 2 ELSE t + 1
    IN  IF t = 0 \/ crossesNewline THEN 0
        ELSE q - 1

\* REGEX_KTE matched at index p: the index of the match's last character, 0 when
\* there is no match at p.  \s* takes the whitespace run, the lazy .*? runs to the
\* first terminator and cannot cross a newline, then the optional quote and \s*.
kte_match_end(text, p) ==
    LET w == skip_whitespace(text, p)
        terminators == {t \in w..Len(text) : text[t] \in TerminatorChars}
        t == IF terminators = {} THEN 0
             ELSE CHOOSE x \in terminators : \A y \in terminators : x <= y
        crossesNewline == \E i \in w..(t - 1) : text[i] = "\n"
        q == IF t + 1 <= Len(text) /\ text[t + 1] \in QuoteChars THEN t + 2 ELSE t + 1
    IN  IF t = 0 \/ crossesNewline THEN 0
        ELSE skip_whitespace(text, q) - 1

\* REGEX_KTE.split(text) from index pos on, the empty strings dropped
RECURSIVE kte_split(_, _)
kte_split(text, pos) ==
    LET starts == {p \in pos..Len(text) : kte_match_end(text, p) # 0}
    IN  IF pos > Len(text) THEN <<>>
        ELSE IF starts = {} THEN <<SubSeq(text, pos, Len(text))>>
        ELSE
            LET p == CHOOSE x \in starts : \A y \in starts : x <= y
                e == kte_match_end(text, p)
            IN  (IF p > pos THEN <<SubSeq(text, pos, p - 1)>> ELSE <<>>)
                \o <<SubSeq(text, p, e)>>
                \o kte_split(text, e + 1)

\* sentences = [g for g in REGEX_KTE.split(str(node)) if g != ""]
kte_sentences(text) == kte_split(text, 1)

\* the accumulation loop: sentences[i] for i in range(from, n_sentences_offset - 1);
\* ok = FALSE is IndexError
RECURSIVE accumulate_sentences(_, _, _)
accumulate_sentences(sentences, i, stop) ==
    IF i >= stop THEN [ok |-> TRUE, value |-> 0]
    ELSE IF i + 1 > Len(sentences) THEN [ok |-> FALSE, value |-> 0]
    ELSE
        LET rest == accumulate_sentences(sentences, i + 1, stop)
        IN  [ok |-> rest.ok, value |-> Len(sentences[i + 1]) + rest.value]

\* [ok, value]; ok = FALSE is IndexError
get_prev_sentences_offset(text, n_sentences_offset) ==
    IF n_sentences_offset > 1
    THEN accumulate_sentences(kte_sentences(text), 0, n_sentences_offset - 1)
    ELSE [ok |-> TRUE, value |-> 0]

---------------------------------------------------------------------------
(* The sentence offset of a text node *)

MaxTextLen == 4

MaxSentenceIndex == 6

SentAlphabet == {"a", " ", ".", "\n", "\""}

RECURSIVE TextsUpTo(_, _)
TextsUpTo(alphabet, n) ==
    IF n = 0 THEN {<<>>}
    ELSE LET shorter == TextsUpTo(alphabet, n - 1)
         IN  shorter \cup {Append(t, c) : t \in shorter, c \in alphabet}

\* a text node is never empty
SentTexts == (TextsUpTo(SentAlphabet, MaxTextLen) \ {<<>>}) \cup {TextHello}

SentIdle ==
    /\ sent_pc = "idle" /\ sent_text = <<>> /\ sent_n = 0
    /\ sent_result = [ok |-> FALSE, value |-> 0]

SentStart ==
    /\ sent_pc = "start"
    /\ sent_text \in SentTexts
    /\ sent_n = 0
    /\ sent_result = [ok |-> FALSE, value |-> 0]

GetPrevSentencesOffset ==
    /\ sent_pc = "start"
    /\ \E n \in 0..MaxSentenceIndex :
          /\ sent_n' = n
          /\ sent_result' = get_prev_sentences_offset(sent_text, n)
    /\ sent_pc' = "done"
    /\ UNCHANGED sent_text
    /\ UNCHANGED notSent

SentNext == GetPrevSentencesOffset

RECURSIVE SumLen(_, _)
SumLen(sentences, k) ==
    IF k = 0 THEN 0 ELSE SumLen(sentences, k - 1) + Len(sentences[k])

RECURSIVE Flatten(_)
Flatten(sentences) ==
    IF sentences = <<>> THEN <<>> ELSE sentences[1] \o Flatten(Tail(sentences))

\* C7: a sentence index greater than m + 1, m the number of sentences of the text,
\* does not raise and gives the end-of-text offset.
C7_Clamping ==
    (sent_pc = "done" /\ sent_n > Len(kte_sentences(sent_text)) + 1) =>
        /\ sent_result.ok
        /\ sent_result.value = Len(sent_text)

\* C8: the offset is 0 for an index of at most 1 and otherwise the summed length of
\* the first index - 1 sentences, which keep their trailing whitespace (together they
\* are the text); 'Hello world. This is a test.' with index 2 gives 13.
C8_SentenceOffset ==
    sent_pc = "done" =>
        /\ sent_n <= 1 => sent_result.ok /\ sent_result.value = 0
        /\ (sent_n > 1 /\ sent_n - 1 <= Len(kte_sentences(sent_text))) =>
              /\ sent_result.ok
              /\ sent_result.value = SumLen(kte_sentences(sent_text), sent_n - 1)
              /\ sent_result.value =
                     Len(Flatten(SubSeq(kte_sentences(sent_text), 1, sent_n - 1)))
        /\ Flatten(kte_sentences(sent_text)) = sent_text
        /\ (sent_text = TextHello /\ sent_n = 2) => sent_result.ok /\ sent_result.value = 13

C8_Witness ==
    /\ sent_pc = "done"
    /\ sent_text = TextHello
    /\ sent_n = 2
    /\ sent_result.value = 13

---------------------------------------------------------------------------
(* tokenize_epub_sentences: REGEX_EPUB and the quote-merging pass *)

\* [.!?]
EpubTerminators == {".", "!", "?"}

\* ['\"”]
EpubClosers == {"'", "\"", "U+201D"}

\* the first index >= p of text that holds a character of stop (Len + 1 when none)
RECURSIVE run_until(_, _, _)
run_until(text, p, stop) ==
    IF p <= Len(text) /\ text[p] \notin stop
    THEN run_until(text, p + 1, stop)
    ELSE p

\* (?!['\"”]?\s|$) at index q: TRUE when the lookahead lets the match go on
epub_lookahead(text, q) ==
    /\ ~(q <= Len(text) /\ text[q] \in WhitespaceChars)
    /\ ~(q + 1 <= Len(text) /\ text[q] \in EpubClosers /\ text[q + 1] \in WhitespaceChars)
    /\ q <= Len(text)

\* (?:[.!?](?!['\"”]?\s|$)[^?]*)* from index p: the index after the last repetition
RECURSIVE epub_inner(_, _)
epub_inner(text, p) ==
    IF p <= Len(text) /\ text[p] \in EpubTerminators /\ epub_lookahead(text, p + 1)
    THEN epub_inner(text, run_until(text, p + 1, {"?"}))
    ELSE p

\* REGEX_EPUB matched at index p, where text[p] is in [^.!?\s]: the index of the
\* match's last character.  Every part after the first character can match the
\* empty string, so each greedy part takes all it can and nothing is given back.
epub_match_end(text, p) ==
    With(epub_inner(text, run_until(text, p + 1, EpubTerminators)), LAMBDA inner :
    With(IF inner <= Len(text) /\ text[inner] \in EpubTerminators
         THEN inner + 1 ELSE inner, LAMBDA t :
    With(IF t <= Len(text) /\ text[t] \in (EpubClosers \cup WhitespaceChars)
         THEN t + 1 ELSE t, LAMBDA q :
        IF q <= Len(text) /\ text[q] \in WhitespaceChars THEN q ELSE q - 1)))

\* re.findall(REGEX_EPUB, text) from index pos on, matches being those found before
RECURSIVE epub_findall_from(_, _, _)
epub_findall_from(text, pos, matches) ==
    With(run_until(text, pos, {text[k] : k \in 1..Len(text)}
                                  \ (EpubTerminators \cup WhitespaceChars)), LAMBDA p :
        IF p > Len(text) THEN matches
        ELSE With(epub_match_end(text, p), LAMBDA e :
                 epub_findall_from(text, e + 1, Append(matches, SubSeq(text, p, e)))))

\* re.findall(REGEX_EPUB, text)
epub_findall(text) == epub_findall_from(text, 1, <<>>)

\* str.startswith
startswith(str, prefix) ==
    Len(str) >= Len(prefix) /\ SubSeq(str, 1, Len(prefix)) = prefix

\* str.endswith
endswith(str, suffix) ==
    Len(str) >= Len(suffix) /\ SubSeq(str, Len(str) - Len(suffix) + 1, Len(str)) = suffix

\* a loop body that merges only when the next match ends with the closing quote itself
merge_step_without_space(regex_result, i, result) ==
    IF /\ startswith(regex_result[i + 1], <<"U+201C">>)
       /\ endswith(regex_result[i + 2], <<"U+201D">>)
    THEN [result |-> Append(result, regex_result[i + 1] \o regex_result[i + 2]),
          i |-> i + 2]
    ELSE [result |-> Append(result, regex_result[i + 1]), i |-> i + 1]

\* a loop body that goes on with the second match of a merged pair
merge_step_by_one(regex_result, i, result) ==
    IF /\ startswith(regex_result[i + 1], <<"U+201C">>)
       /\ \/ endswith(regex_result[i + 2], <<"U+201D">>)
          \/ endswith(regex_result[i + 2], <<"U+201D", " ">>)
    THEN [result |-> Append(result, regex_result[i + 1] \o regex_result[i + 2]),
          i |-> i + 1]
    ELSE [result |-> Append(result, regex_result[i + 1]), i |-> i + 1]

\* one pass of the body of the while loop; i is the 0-based index of the code
merge_step(regex_result, i, result) ==
    IF /\ startswith(regex_result[i + 1], <<"U+201C">>)
       /\ \/ endswith(regex_result[i + 2], <<"U+201D">>)
          \/ endswith(regex_result[i + 2], <<"U+201D", " ">>)
    THEN [result |-> Append(result, regex_result[i + 1] \o regex_result[i + 2]),
          i |-> i + 2]
    ELSE [result |-> Append(result, regex_result[i + 1]), i |-> i + 1]

MaxChunks == 5

TokChunks == {<<"U+201C">>, <<"U+201D">>, <<".", " ">>, <<".", "U+201D", " ">>, <<"a">>}

TokTexts == {Flatten(cs) : cs \in UNION {[1..n -> TokChunks] : n \in 0..MaxChunks}}

TokIdle ==
    /\ tok_pc = "idle" /\ tok_text = <<>> /\ tok_regex_result = <<>>
    /\ tok_i = 0 /\ tok_result = <<>>

TokStart ==
    /\ tok_pc = "start"
    /\ tok_text \in TokTexts
    /\ tok_regex_result = <<>>
    /\ tok_i = 0
    /\ tok_result = <<>>

\* regex_result = re.findall(REGEX_EPUB, text); result = []; i = 0
TokFindall ==
    /\ tok_pc = "start"
    /\ tok_regex_result' = epub_findall(tok_text)
    /\ tok_result' = <<>>
    /\ tok_i' = 0
    /\ tok_pc' = "loop"
    /\ UNCHANGED tok_text
    /\ UNCHANGED notTok

\* while i < len(regex_result) - 1: one pass of the body
TokMergeStep ==
    /\ tok_pc = "loop"
    /\ tok_i < Len(tok_regex_result) - 1
    /\ \E step \in {merge_step(tok_regex_result, tok_i, tok_result)} :
          /\ tok_result' = step.result
          /\ tok_i' = step.i
    /\ UNCHANGED <<tok_pc, tok_text, tok_regex_result>>
    /\ UNCHANGED notTok

\* the loop is left: if i < len(regex_result): result.append(regex_result[i]); return
TokReturn ==
    /\ tok_pc = "loop"
    /\ ~(tok_i < Len(tok_regex_result) - 1)
    /\ tok_result' = IF tok_i < Len(tok_regex_result)
                     THEN Append(tok_result, tok_regex_result[tok_i + 1])
                     ELSE tok_result
    /\ tok_pc' = "done"
    /\ UNCHANGED <<tok_text, tok_regex_result, tok_i>>
    /\ UNCHANGED notTok

TokNext == TokFindall \/ TokMergeStep \/ TokReturn

\* a match that starts with the opening curly quote
Opens(match) == match # <<>> /\ match[1] = "U+201C"

\* a match that ends with the closing curly quote or with that quote and one space
Closes(match) ==
    \/ match # <<>> /\ match[Len(match)] = "U+201D"
    \/ Len(match) >= 2 /\ match[Len(match)] = " " /\ match[Len(match) - 1] = "U+201D"

\* the ways to cut k outputs into runs of one match or of two
Sizes(k) == [1..k -> {1, 2}]

\* the index of the first match of output k when the outputs have the sizes size
RECURSIVE FirstOf(_, _)
FirstOf(size, k) == IF k = 1 THEN 1 ELSE FirstOf(size, k - 1) + size[k - 1]

\* the outputs are the matches in order, one or two adjacent matches each
Joins(size, matches, outputs) ==
    /\ FirstOf(size, Len(outputs) + 1) = Len(matches) + 1
    /\ \A k \in 1..Len(outputs) :
          outputs[k] = IF size[k] = 2
                       THEN matches[FirstOf(size, k)] \o matches[FirstOf(size, k) + 1]
                       ELSE matches[FirstOf(size, k)]

\* C23: going through the matches from the left, a match that starts with the opening
\* curly quote is joined with the match right after it exactly when that match ends
\* with the closing curly quote or with that quote and one space; the pair is emitted
\* as one sentence, their concatenation, and the next sentence starts after the pair.
C23_QuoteMerging ==
    tok_pc = "done" =>
        \E size \in Sizes(Len(tok_result)) :
            /\ Joins(size, tok_regex_result, tok_result)
            /\ \A k \in 1..Len(tok_result) :
                  size[k] = 2 <=>
                      /\ FirstOf(size, k) < Len(tok_regex_result)
                      /\ Opens(tok_regex_result[FirstOf(size, k)])
                      /\ Closes(tok_regex_result[FirstOf(size, k) + 1])

\* three matches: the second one closes the first and opens itself, the third closes;
\* the first two are joined and the third is left alone
C23_Witness ==
    /\ tok_pc = "done"
    /\ Len(tok_regex_result) = 3
    /\ Opens(tok_regex_result[1])
    /\ Opens(tok_regex_result[2]) /\ Closes(tok_regex_result[2])
    /\ tok_regex_result[2][Len(tok_regex_result[2])] = " "
    /\ Closes(tok_regex_result[3])
    /\ tok_result = <<tok_regex_result[1] \o tok_regex_result[2], tok_regex_result[3]>>

\* C28: the pass ends for every list of matches; its output is the matches in order,
\* each output one match or two adjacent ones, so that the concatenation is kept and
\* no match is lost or repeated; n matches give between ceil(n/2) and n outputs.
C28_AdjacentJoins ==
    /\ [](tok_pc = "loop" =>
             /\ tok_i <= Len(tok_regex_result)
             /\ Flatten(tok_result) = Flatten(SubSeq(tok_regex_result, 1, tok_i)))
    /\ [](tok_pc = "done" =>
             /\ Flatten(tok_result) = Flatten(tok_regex_result)
             /\ \E size \in Sizes(Len(tok_result)) :
                   Joins(size, tok_regex_result, tok_result)
             /\ (Len(tok_regex_result) + 1) \div 2 <= Len(tok_result)
             /\ Len(tok_result) <= Len(tok_regex_result))
    /\ <>(tok_pc = "done")

\* three matches give two sentences, the least the bound allows
C28_Witness ==
    /\ tok_pc = "done"
    /\ Len(tok_regex_result) = 3
    /\ Len(tok_result) = 2
    /\ Flatten(tok_result) = Flatten(tok_regex_result)
    /\ Flatten(tok_regex_result) # tok_text

---------------------------------------------------------------------------
(* Offset re-basing of an escaped text *)

MaxPlainLen == 3

OffAlphabet == {"a", "U+0416", "U+20AC", "U+00E9", "\n"}

OffIdle ==
    /\ off_pc = "idle" /\ off_plain = <<>> /\ off_text = <<>> /\ off_fn = "none"
    /\ off_offset = 0 /\ off_result = [ok |-> FALSE, value |-> 0]

\* the escaped text is what convert_cfi_system1_to_system2 passes: the
\* unicode_escape encoding of a node's text
OffStart ==
    /\ off_pc = "start"
    /\ off_plain \in TextsUpTo(OffAlphabet, MaxPlainLen)
    /\ off_text = unicode_escape_encode(off_plain)
    /\ off_fn = "none"
    /\ off_offset = 0
    /\ off_result = [ok |-> FALSE, value |-> 0]

\* converter.convert_offset_prog1_to_prog2(text, offset)
ConvertOffset ==
    /\ off_pc = "start"
    /\ \E k \in 0..Len(off_text) :
          /\ off_offset' = k
          /\ off_result' = convert_offset_prog1_to_prog2(off_text, TRUE, k)
    /\ off_fn' = "converter"
    /\ off_pc' = "done"
    /\ UNCHANGED <<off_plain, off_text>>
    /\ UNCHANGED notOff

\* test.convert_offset_prog1_to_prog2(text, offset)
TestConvertOffset ==
    /\ off_pc = "start"
    /\ \E k \in 0..Len(off_text) :
          /\ off_offset' = k
          /\ off_result' = test_convert_offset_prog1_to_prog2(off_text, k)
    /\ off_fn' = "test"
    /\ off_pc' = "done"
    /\ UNCHANGED <<off_plain, off_text>>
    /\ UNCHANGED notOff

OffNext == ConvertOffset \/ TestConvertOffset

\* every non-ASCII code point of the text is written as a \uXXXX escape
OnlyUEscapes == \A i \in 1..Len(off_plain) : Ord(off_plain[i]) < 128 \/ Ord(off_plain[i]) >= 256

\* the escaped offsets that fall after j whole encoded characters
BoundaryAfter(j) == Len(unicode_escape_encode(Prefix(off_plain, j)))

\* C10: for an escaped text whose non-ASCII code points are \uXXXX escapes and an
\* offset on the boundary after j encoded characters, convert_offset_prog1_to_prog2
\* of converter.py returns j.
C10_EscapedOffset ==
    (off_pc = "done" /\ off_fn = "converter" /\ OnlyUEscapes) =>
        \A j \in 0..Len(off_plain) :
            off_offset = BoundaryAfter(j) => off_result.ok /\ off_result.value = j

\* C11: when the offset falls inside the escape of the character after j whole
\* encoded characters, the conversion does not fail and returns j, the number of
\* code points of the part of the prefix that decodes.
C11_TruncatedEscape ==
    off_pc = "done" =>
        \A j \in 0..(Len(off_plain) - 1) :
            (BoundaryAfter(j) < off_offset /\ off_offset < BoundaryAfter(j + 1))
                => off_result.ok /\ off_result.value = j

\* the text holds no escape: printable ASCII without a backslash
NoEscapes == \A i \in 1..Len(off_plain) : escape_char(off_plain[i]) = <<off_plain[i]>>

\* C12: for every escaped text t, either conversion gives 0 at offset 0 and the number
\* of code points of the decoded t at offset len(t); for a text without escapes it
\* gives k at every offset k.
C12_OffsetIdentities ==
    off_pc = "done" =>
        /\ off_offset = 0 => off_result.ok /\ off_result.value = 0
        /\ off_offset = Len(off_text) => off_result.ok /\ off_result.value = Len(off_plain)
        /\ NoEscapes => off_result.ok /\ off_result.value = off_offset

C12_Witness ==
    /\ off_pc = "done"
    /\ off_fn = "converter"
    /\ off_offset = Len(off_text)
    /\ Len(off_plain) = 3
    /\ Len(off_text) > Len(off_plain)
    /\ \E i \in 1..Len(off_plain) : off_plain[i] = "a"
    /\ off_result.ok /\ off_result.value = 3

---------------------------------------------------------------------------
(* db.py: the sink stores *)

\* an insert loop without the duplicate check
RECURSIVE insert_into_calibre_unchecked(_, _, _)
insert_into_calibre_unchecked(store, books_highlights, count) ==
    IF books_highlights = <<>> THEN [store |-> store, count |-> count]
    ELSE
        LET h == books_highlights[1]
            row == [book |-> h.book, timestamp |-> h.timestamp,
                    annot_id |-> h.highlight.uuid, annot_data |-> h.highlight,
                    searchable_text |-> h.searchable_text]
        IN  insert_into_calibre_unchecked(Append(store, row), Tail(books_highlights), count + 1)

\* an insert loop that counts the highlights it skips
RECURSIVE insert_into_kobo_counting_all(_, _, _)
insert_into_kobo_counting_all(store, highlights, count) ==
    IF highlights = <<>> THEN [store |-> store, count |-> count]
    ELSE
        LET h == highlights[1]
            exists == \E r \in 1..Len(store) : store[r].BookmarkID = h.uuid
            row == [VolumeID |-> h.volume_id, Text |-> h.text, BookmarkID |-> h.uuid]
        IN  IF exists THEN insert_into_kobo_counting_all(store, Tail(highlights), count + 1)
            ELSE insert_into_kobo_counting_all(Append(store, row), Tail(highlights), count + 1)

\* db.insert_highlights_into_calibre: the loop over books_highlights, count so far
RECURSIVE insert_into_calibre_from(_, _, _)
insert_into_calibre_from(store, books_highlights, count) ==
    IF books_highlights = <<>> THEN [store |-> store, count |-> count]
    ELSE
        LET h == books_highlights[1]
            exists == \E r \in 1..Len(store) : store[r].annot_id = h.annot_id
            row == [book |-> h.book, timestamp |-> h.timestamp,
                    annot_id |-> h.highlight.uuid, annot_data |-> h.highlight,
                    searchable_text |-> h.searchable_text]
        IN  IF exists THEN insert_into_calibre_from(store, Tail(books_highlights), count)
            ELSE insert_into_calibre_from(Append(store, row), Tail(books_highlights), count + 1)

\* db.insert_highlights_into_calibre: [store, count], the table afterwards and the
\* value returned
insert_highlights_into_calibre(store, books_highlights) ==
    insert_into_calibre_from(store, books_highlights, 0)

\* db.insert_highlights_into_kobo: the loop over highlights, count so far
RECURSIVE insert_into_kobo_from(_, _, _)
insert_into_kobo_from(store, highlights, count) ==
    IF highlights = <<>> THEN [store |-> store, count |-> count]
    ELSE
        LET h == highlights[1]
            exists == \E r \in 1..Len(store) : store[r].BookmarkID = h.uuid
            row == [VolumeID |-> h.volume_id, Text |-> h.text, BookmarkID |-> h.uuid]
        IN  IF exists THEN insert_into_kobo_from(store, Tail(highlights), count)
            ELSE insert_into_kobo_from(Append(store, row), Tail(highlights), count + 1)

\* db.insert_highlights_into_kobo: [store, count]
insert_highlights_into_kobo(store, highlights) ==
    insert_into_kobo_from(store, highlights, 0)

---------------------------------------------------------------------------
(* converter.py: the spine index, parse_kobo_highlights, process_calibre_epub *)

PathCh1 == <<"ch1.xhtml">>
PathCh2 == <<"OEBPS", "/", "ch2.xhtml">>
PathCh3Href == <<"ch3.xhtml">>
PathCh3Disk == <<"text", "/", "ch3.xhtml">>
PathCh4 == <<"ch4.xhtml">>

\* an extracted EPUB: the files on disk in rglob order, with the document each
\* parses to, the manifest and the spine of its .opf
Epub ==
    [files |-> << [path |-> PathCh1, doc |-> 1],
                  [path |-> PathCh2, doc |-> 3],
                  [path |-> PathCh3Disk, doc |-> 4],
                  [path |-> PathCh4, doc |-> 1] >>,
     manifest |-> << [id |-> "c1", href |-> PathCh1],
                     [id |-> "c2", href |-> PathCh2],
                     [id |-> "c3", href |-> PathCh3Href],
                     [id |-> "c4", href |-> PathCh4] >>,
     spine |-> <<"c1", "c2", "c3", "c4">>]

\* pathlib.Path(root_dir / path).is_file()
is_file(book, path) == \E i \in 1..Len(book.files) : book.files[i].path = path

file_doc(book, path) ==
    book.files[CHOOSE i \in 1..Len(book.files) : book.files[i].path = path].doc

\* root_dir.rglob(name): the files whose last component is name, in directory order
rglob(book, name) ==
    SelectSeq(book.files, LAMBDA f : f.path[Len(f.path)] = name)

\* the href each manifest item is filed under
final_href(book, h) ==
    IF is_file(book, h.href) THEN h.href
    ELSE rglob(book, h.href[Len(h.href)])[1].path

\* get_spine_index_map: [ok, spine_index_map, fixed_path]; ok = FALSE is IndexError
get_spine_index_map(book) ==
    LET spine_index == [k \in 1..Len(book.spine) |-> k - 1]
        hrefs == SelectSeq(book.manifest,
                           LAMBDA m : \E k \in 1..Len(book.spine) : book.spine[k] = m.id)
        items == 1..Len(hrefs)
        found == \A i \in items :
                    is_file(book, hrefs[i].href)
                    \/ rglob(book, hrefs[i].href[Len(hrefs[i].href)]) # <<>>
        position(id) == CHOOSE k \in 1..Len(book.spine) : book.spine[k] = id
    IN  IF ~found THEN [ok |-> FALSE, spine_index_map |-> <<>>, fixed_path |-> <<>>]
        ELSE [ok |-> TRUE,
              spine_index_map |->
                  [path \in {final_href(book, hrefs[i]) : i \in items} |->
                      spine_index[position(
                          hrefs[CHOOSE i \in items :
                                    /\ final_href(book, hrefs[i]) = path
                                    /\ \A j \in items :
                                           final_href(book, hrefs[j]) = path => j <= i].id)]],
              fixed_path |->
                  [href \in {hrefs[i].href : i \in {j \in items : ~is_file(book, hrefs[j].href)}} |->
                      rglob(book, href[Len(href)])[1].path]]

\* content_path.replace("/", "!")
replace_slash(path) == [i \in 1..Len(path) |-> IF path[i] = "/" THEN "!" ELSE path[i]]

\* re.search(r"\((.*?)\)", s): [ok, group]; ok = FALSE is no match (None)
search_parens(s) ==
    LET open == IndexOf(s, "(")
        after == SubSeq(s, open + 1, Len(s))
        close == IndexOf(after, ")")
    IN  IF open = 0 \/ close = 0 THEN [ok |-> FALSE, group |-> <<>>]
        ELSE [ok |-> TRUE, group |-> SubSeq(after, 1, close - 1)]

\* uuid.uuid3(uuid.NAMESPACE_DNS, name).hex: a hash of the name and nothing else,
\* taken to be free of collisions on the model's names
uuid3_hex(name) == [namespace |-> "NAMESPACE_DNS", name |-> name]

\* an identifier that also hashes the time of the translation
unique_uuid_with_time(start_cfi, end_cfi, highlight, book_id, now) ==
    uuid3_hex(start_cfi \o <<"*">> \o end_cfi \o <<"*">> \o highlight.text
              \o <<")">> \o format_int(now))

\* an identifier that also hashes the book
unique_uuid_with_book(start_cfi, end_cfi, highlight, book_id, now) ==
    uuid3_hex(start_cfi \o <<"*">> \o end_cfi \o <<"*">> \o highlight.text
              \o <<")">> \o format_int(book_id))

\* unique_uuid as parse_kobo_highlights computes it from its local variables
unique_uuid_of(start_cfi, end_cfi, highlight, book_id, now) ==
    uuid3_hex(start_cfi \o <<"*">> \o end_cfi \o <<"*">> \o highlight.text \o <<")">>)

NoHighlight ==
    [book |-> 0, timestamp |-> 0, annot_id |-> <<>>, highlight |-> <<>>,
     searchable_text |-> <<>>]

\* a translation that files the record under an identifier of its text alone
parse_with_text_annot_id(book, highlight, book_id, spine_index_map, now) ==
    LET content_path ==
            IF is_file(book, highlight.content_path) THEN highlight.content_path
            ELSE replace_slash(highlight.content_path)
        start_cfi == search_parens(highlight.start_path)
        end_cfi == search_parens(highlight.end_path)
        hash == IndexOf(highlight.start_path, "#")
        real_content_path ==
            IF hash = 0 THEN highlight.start_path
            ELSE SubSeq(highlight.start_path, 1, hash - 1)
    IN  IF ~is_file(book, content_path) \/ ~start_cfi.ok \/ ~end_cfi.ok
        THEN [ok |-> FALSE, value |-> NoHighlight]
        ELSE
            With(Docs[file_doc(book, content_path)], LAMBDA soup :
            With(convert_cfi_system1_to_system2(soup, start_cfi.group), LAMBDA calibre_start_cfi :
            With(convert_cfi_system1_to_system2(soup, end_cfi.group), LAMBDA calibre_end_cfi :
            With(unique_uuid_of(start_cfi.group, end_cfi.group, highlight, book_id, now),
                 LAMBDA unique_uuid :
                IF \/ ~calibre_start_cfi.ok \/ ~calibre_end_cfi.ok
                   \/ real_content_path \notin DOMAIN spine_index_map
                THEN [ok |-> FALSE, value |-> NoHighlight]
                ELSE [ok |-> TRUE,
                      value |-> [book |-> book_id, timestamp |-> now, annot_id |-> uuid3_hex(highlight.text),
                                 highlight |->
                                     [start_cfi |-> calibre_start_cfi.cfi,
                                      end_cfi |-> calibre_end_cfi.cfi,
                                      highlighted_text |-> highlight.text,
                                      spine_index |-> spine_index_map[real_content_path],
                                      spine_name |-> content_path,
                                      timestamp |-> now,
                                      uuid |-> unique_uuid],
                                 searchable_text |-> highlight.text]]))))

\* parse_kobo_highlights: [ok, value]; ok = FALSE is an exception
parse_kobo_highlights(book, highlight, book_id, spine_index_map, now) ==
    LET content_path ==
            IF is_file(book, highlight.content_path) THEN highlight.content_path
            ELSE replace_slash(highlight.content_path)
        start_cfi == search_parens(highlight.start_path)
        end_cfi == search_parens(highlight.end_path)
        hash == IndexOf(highlight.start_path, "#")
        real_content_path ==
            IF hash = 0 THEN highlight.start_path
            ELSE SubSeq(highlight.start_path, 1, hash - 1)
    IN  IF ~is_file(book, content_path) \/ ~start_cfi.ok \/ ~end_cfi.ok
        THEN [ok |-> FALSE, value |-> NoHighlight]
        ELSE
            With(Docs[file_doc(book, content_path)], LAMBDA soup :
            With(convert_cfi_system1_to_system2(soup, start_cfi.group), LAMBDA calibre_start_cfi :
            With(convert_cfi_system1_to_system2(soup, end_cfi.group), LAMBDA calibre_end_cfi :
            With(unique_uuid_of(start_cfi.group, end_cfi.group, highlight, book_id, now),
                 LAMBDA unique_uuid :
                IF \/ ~calibre_start_cfi.ok \/ ~calibre_end_cfi.ok
                   \/ real_content_path \notin DOMAIN spine_index_map
                THEN [ok |-> FALSE, value |-> NoHighlight]
                ELSE [ok |-> TRUE,
                      value |-> [book |-> book_id, timestamp |-> now, annot_id |-> unique_uuid,
                                 highlight |->
                                     [start_cfi |-> calibre_start_cfi.cfi,
                                      end_cfi |-> calibre_end_cfi.cfi,
                                      highlighted_text |-> highlight.text,
                                      spine_index |-> spine_index_map[real_content_path],
                                      spine_name |-> content_path,
                                      timestamp |-> now,
                                      uuid |-> unique_uuid],
                                 searchable_text |-> highlight.text]]))))

\* the for loop of process_calibre_epub, inside its try: the first exception ends it
RECURSIVE process_highlights(_, _, _, _, _)
process_highlights(book, highlights, book_id, spine_index_map, now) ==
    IF highlights = <<>> THEN <<>>
    ELSE
        With(parse_kobo_highlights(book, highlights[1], book_id, spine_index_map, now),
             LAMBDA calibre_highlight :
                IF ~calibre_highlight.ok THEN <<>>
                ELSE <<calibre_highlight.value>>
                     \o With(Tail(highlights), LAMBDA rest :
                            process_highlights(book, rest, book_id, spine_index_map, now)))

\* process_calibre_epub: the list of translated highlights
process_calibre_epub(book, book_id, highlights, now) ==
    With(get_spine_index_map(book), LAMBDA maps :
        IF ~maps.ok THEN <<>>
        ELSE With(maps.spine_index_map, LAMBDA spine_index_map :
                 process_highlights(book, highlights, book_id, spine_index_map, now)))

---------------------------------------------------------------------------
(* A run of kobo2calibre.main over the Kobo store, and the sink stores *)

MaxHighlights == 2

MaxRuns == 2

MaxBatch == 2

MaxRows == 4

\* a KoboHighlight whose paths have the form <content file>#point(<cfi>)
KoboHighlight(content_path, href, start_cfi, end_cfi, text) ==
    [start_path |-> href \o <<"#", "point", "(">> \o start_cfi \o <<")">>,
     end_path |-> href \o <<"#", "point", "(">> \o end_cfi \o <<")">>,
     text |-> text,
     content_path |-> content_path]

\* the text node of <p> in ch1.xhtml
HGood ==
    KoboHighlight(PathCh1, PathCh1, <<"/", "1", "/", "1", "/", "1", ":", "0">>,
                  <<"/", "1", "/", "1", "/", "1", ":", "5">>, <<"H", "e", "l", "l", "o">>)

\* the same range with its ends exchanged
HSwapped ==
    KoboHighlight(PathCh1, PathCh1, <<"/", "1", "/", "1", "/", "1", ":", "5">>,
                  <<"/", "1", "/", "1", "/", "1", ":", "0">>, <<"H", "e", "l", "l", "o">>)

\* the text node of the first <p> in OEBPS/ch2.xhtml
HWs ==
    KoboHighlight(PathCh2, PathCh2, <<"/", "2", "/", "2", "/", "1", ":", "1">>,
                  <<"/", "2", "/", "2", "/", "1", ":", "3">>, <<".", " ">>)

\* a step past the last child
HRange ==
    KoboHighlight(PathCh1, PathCh1, <<"/", "1", "/", "9", "/", "1", ":", "0">>,
                  <<"/", "1", "/", "9", "/", "1", ":", "2">>, <<"H", "e">>)

\* a segment that is no integer
HSyntax ==
    KoboHighlight(PathCh1, PathCh1, <<"/", "1", "/", "x", "/", "1", ":", "0">>,
                  <<"/", "1", "/", "1", "/", "1", ":", "2">>, <<"H", "e">>)

\* a path that ends on the <p> element
HElement ==
    KoboHighlight(PathCh1, PathCh1, <<"/", "1", "/", "1", ":", "0">>,
                  <<"/", "1", "/", "1", "/", "1", ":", "2">>, <<"H", "e">>)

\* a content file the manifest names ch3.xhtml and the disk holds as text/ch3.xhtml
HRepaired ==
    KoboHighlight(PathCh3Href, PathCh3Disk, <<"/", "1", "/", "1", "/", "1", "/", "1", ":", "0">>,
                  <<"/", "1", "/", "1", "/", "1", "/", "1", ":", "1">>, <<"a">>)

\* the range of HGood in ch4.xhtml, whose content is that of ch1.xhtml
HCopy ==
    KoboHighlight(PathCh4, PathCh4, <<"/", "1", "/", "1", "/", "1", ":", "0">>,
                  <<"/", "1", "/", "1", "/", "1", ":", "5">>, <<"H", "e", "l", "l", "o">>)

\* a device path: tag index 1, sentence index 1 of ch1.xhtml
HDevice ==
    [start_path |-> <<"s", "p", "a", "n", "#", "k", "o", "b", "o",
                      "\\", ".", "1", "\\", ".", "1">>,
     end_path |-> <<"s", "p", "a", "n", "#", "k", "o", "b", "o",
                    "\\", ".", "1", "\\", ".", "1">>,
     text |-> <<"H", "e", "l", "l", "o">>,
     content_path |-> PathCh1]

HighlightPool == {HGood, HSwapped, HCopy, HRange, HElement}

RECURSIVE ListsUpTo(_, _)
ListsUpTo(pool, n) ==
    IF n = 0 THEN {<<>>}
    ELSE LET shorter == ListsUpTo(pool, n - 1)
         IN  shorter \cup {Append(l, h) : l \in shorter, h \in pool}

Volumes == {"vol1.kepub.epub", "vol2.kepub.epub"}

\* metadata.calibre: the application_id of a volume's lpath
application_id(volume) == IF volume = "vol1.kepub.epub" THEN 1 ELSE 2

\* the highlights parse_kobo_highlights can hand to the calibre store
CalibrePool ==
    {parse_kobo_highlights(Epub, hb[1], hb[2], get_spine_index_map(Epub).spine_index_map,
                           hb[2] - 1).value :
        hb \in {<<HGood, 1>>, <<HGood, 2>>, <<HWs, 1>>}}

\* KoboTargetHighlight records
KoboPool ==
    {[uuid |-> uv[1], volume_id |-> uv[2], text |-> <<"a">>] :
        uv \in {<<"id1", "vol1.kepub.epub">>, <<"id1", "vol2.kepub.epub">>,
                <<"id2", "vol1.kepub.epub">>}}

PriorRow ==
    LET h == parse_kobo_highlights(Epub, HGood, 1, get_spine_index_map(Epub).spine_index_map, 0).value
    IN  [book |-> h.book, timestamp |-> h.timestamp, annot_id |-> h.highlight.uuid,
         annot_data |-> h.highlight, searchable_text |-> h.searchable_text]

MainIdle ==
    /\ kobo_db = <<>> /\ metadata = {} /\ annotations = <<>> /\ bookmarks = <<>>
    /\ to_insert = <<>> /\ main_pc = "idle" /\ main_i = 0 /\ clock = 0 /\ run = 0
    /\ last_result = <<>> /\ translated = {} /\ store_before = <<>>
    /\ last_batch = <<>> /\ returned = 0

\* the state before main's first run: the Kobo store holds two volumes, the calibre
\* store is empty or holds one highlight of an earlier import
MainStart ==
    /\ kobo_db \in
          {<< [volume |-> "vol1.kepub.epub", highlights |-> l1],
              [volume |-> "vol2.kepub.epub", highlights |-> l2] >> :
              l1 \in ListsUpTo(HighlightPool, MaxHighlights),
              l2 \in {<<HGood>>, <<HSyntax, HWs>>, <<HDevice>>, <<HRepaired>>}}
    /\ metadata \in {Volumes, {"vol1.kepub.epub"}}
    /\ annotations \in {<<>>, <<PriorRow>>}
    /\ bookmarks = <<>>
    /\ to_insert = <<>>
    /\ main_pc = "loop"
    /\ main_i = 1
    /\ clock = 0
    /\ run = 1
    /\ last_result = <<>>
    /\ translated = {}
    /\ store_before = annotations
    /\ last_batch = <<>>
    /\ returned = 0

\* what a translation read and the identifier it produced
Translation(h, book_id, now, calibre_highlight) ==
    [start |-> search_parens(h.start_path).group,
     end |-> search_parens(h.end_path).group,
     text |-> h.text,
     book |-> book_id,
     content_path |-> h.content_path,
     timestamp |-> now,
     uuid |-> calibre_highlight.highlight.uuid]

\* one iteration of main's loop whose volume has no metadata entry:
\* get_calibre_book_id raises IndexError and the run ends
MainNoBook ==
    /\ main_pc = "loop"
    /\ main_i <= Len(kobo_db)
    /\ kobo_db[main_i].volume \notin metadata
    /\ main_pc' = "aborted"
    /\ UNCHANGED <<kobo_db, metadata, annotations, bookmarks, to_insert, main_i, clock, run,
                   last_result, translated, store_before, last_batch, returned>>
    /\ UNCHANGED notMain

\* an iteration of main's loop that writes the volume's highlights to the store
MainVolumeWritingThrough ==
    /\ main_pc = "loop"
    /\ main_i <= Len(kobo_db)
    /\ kobo_db[main_i].volume \in metadata
    /\ LET highlights == kobo_db[main_i].highlights
           book_id == application_id(kobo_db[main_i].volume)
       IN  \E result \in {process_calibre_epub(Epub, book_id, highlights, clock)} :
               /\ to_insert' = to_insert \o result
               /\ last_result' = result
               /\ translated' = translated \cup
                      {Translation(highlights[k], book_id, clock, result[k]) :
                          k \in 1..Len(result)}
               /\ annotations' = insert_highlights_into_calibre(annotations, result).store
    /\ main_i' = main_i + 1
    /\ clock' = clock + 1
    /\ UNCHANGED <<kobo_db, metadata, bookmarks, main_pc, run,
                   store_before, last_batch, returned>>
    /\ UNCHANGED notMain

\* one iteration of main's loop: the volume's book is found and its highlights
\* are translated by process_calibre_epub
MainVolume ==
    /\ main_pc = "loop"
    /\ main_i <= Len(kobo_db)
    /\ kobo_db[main_i].volume \in metadata
    /\ LET highlights == kobo_db[main_i].highlights
           book_id == application_id(kobo_db[main_i].volume)
       IN  \E result \in {process_calibre_epub(Epub, book_id, highlights, clock)} :
               /\ to_insert' = to_insert \o result
               /\ last_result' = result
               /\ translated' = translated \cup
                      {Translation(highlights[k], book_id, clock, result[k]) :
                          k \in 1..Len(result)}
    /\ main_i' = main_i + 1
    /\ clock' = clock + 1
    /\ UNCHANGED <<kobo_db, metadata, annotations, bookmarks, main_pc, run,
                   store_before, last_batch, returned>>
    /\ UNCHANGED notMain

\* after the loop: db.insert_highlights_into_calibre(calibre_db, to_insert)
MainInsert ==
    /\ main_pc = "loop"
    /\ main_i > Len(kobo_db)
    /\ LET r == insert_highlights_into_calibre(annotations, to_insert)
       IN  /\ annotations' = r.store
           /\ returned' = r.count
    /\ store_before' = annotations
    /\ last_batch' = to_insert
    /\ main_pc' = "done"
    /\ UNCHANGED <<kobo_db, metadata, bookmarks, to_insert, main_i, clock, run,
                   last_result, translated>>
    /\ UNCHANGED notMain

\* the program is started again on the same stores
MainRestart ==
    /\ main_pc \in {"done", "aborted"}
    /\ run < MaxRuns
    /\ run' = run + 1
    /\ main_pc' = "loop"
    /\ main_i' = 1
    /\ to_insert' = <<>>
    /\ last_result' = <<>>
    /\ UNCHANGED <<kobo_db, metadata, annotations, bookmarks, clock, translated,
                   store_before, last_batch, returned>>
    /\ UNCHANGED notMain

Next == MainNoBook \/ MainVolume \/ MainInsert \/ MainRestart

---------------------------------------------------------------------------
(* The sink stores under arbitrary batches *)

DbStart ==
    /\ kobo_db = <<>> /\ metadata = {}
    /\ annotations \in {<<>>, <<PriorRow>>}
    /\ bookmarks = <<>>
    /\ to_insert = <<>> /\ main_pc = "db" /\ main_i = 0 /\ clock = 0 /\ run = 0
    /\ last_result = <<>> /\ translated = {} /\ store_before = <<>>
    /\ last_batch = <<>> /\ returned = 0

\* insert_highlights_into_calibre(db, batch)
InsertHighlightsIntoCalibre ==
    /\ main_pc \in {"db", "calibre", "kobo"}
    /\ Len(annotations) < MaxRows
    /\ \E batch \in ListsUpTo(CalibrePool, MaxBatch) :
          LET r == insert_highlights_into_calibre(annotations, batch)
          IN  /\ annotations' = r.store
              /\ returned' = r.count
              /\ last_batch' = batch
    /\ store_before' = annotations
    /\ main_pc' = "calibre"
    /\ UNCHANGED <<kobo_db, metadata, bookmarks, to_insert, main_i, clock, run,
                   last_result, translated>>
    /\ UNCHANGED notMain

\* insert_highlights_into_kobo(db, batch)
InsertHighlightsIntoKobo ==
    /\ main_pc \in {"db", "calibre", "kobo"}
    /\ Len(bookmarks) < MaxRows
    /\ \E batch \in ListsUpTo(KoboPool, MaxBatch) :
          LET r == insert_highlights_into_kobo(bookmarks, batch)
          IN  /\ bookmarks' = r.store
              /\ returned' = r.count
              /\ last_batch' = batch
    /\ store_before' = bookmarks
    /\ main_pc' = "kobo"
    /\ UNCHANGED <<kobo_db, metadata, annotations, to_insert, main_i, clock, run,
                   last_result, translated>>
    /\ UNCHANGED notMain

DbNext == InsertHighlightsIntoCalibre \/ InsertHighlightsIntoKobo

---------------------------------------------------------------------------
(* Properties of a run and of the sink stores *)

\* the volume whose translation last_result holds
LastVolume == kobo_db[main_i - 1]

\* highlight h translated on its own
translate_alone(h, book_id, now) ==
    parse_kobo_highlights(Epub, h, book_id, get_spine_index_map(Epub).spine_index_map, now)

\* h fails in the CFI decoder: a step out of range, a malformed segment, or a path
\* that does not end on a text node
StructuralDecodeFailure(h) ==
    /\ is_file(Epub, h.content_path)
    /\ search_parens(h.start_path).ok /\ search_parens(h.end_path).ok
    /\ LET soup == Docs[file_doc(Epub, h.content_path)]
       IN  \/ ~convert_cfi_system1_to_system2(soup, search_parens(h.start_path).group).ok
           \/ ~convert_cfi_system1_to_system2(soup, search_parens(h.end_path).group).ok

RECURSIVE TranslatedAlone(_, _, _)
TranslatedAlone(highlights, book_id, now) ==
    IF highlights = <<>> THEN <<>>
    ELSE (IF translate_alone(highlights[1], book_id, now).ok
          THEN <<translate_alone(highlights[1], book_id, now).value>> ELSE <<>>)
         \o TranslatedAlone(Tail(highlights), book_id, now)

\* C2: when highlights of a book fail with a structural decode failure, only they are
\* skipped: the list returned for the book holds every highlight that translates,
\* the ones after a failure included.
C2_SkipAndContinue ==
    (main_i > 1
     /\ \A k \in 1..Len(LastVolume.highlights) :
            \/ translate_alone(LastVolume.highlights[k],
                               application_id(LastVolume.volume), clock - 1).ok
            \/ StructuralDecodeFailure(LastVolume.highlights[k]))
    => last_result = TranslatedAlone(LastVolume.highlights,
                                     application_id(LastVolume.volume), clock - 1)

\* C3: whatever batches the insert calls are given, a batch that repeats an
\* identifier included, no two rows of a sink store share an identifier.
C3_InsertIfAbsent ==
    /\ \A i, j \in 1..Len(annotations) :
           annotations[i].annot_id = annotations[j].annot_id => i = j
    /\ \A i, j \in 1..Len(bookmarks) :
           bookmarks[i].BookmarkID = bookmarks[j].BookmarkID => i = j

C3_Witness ==
    /\ main_pc = "calibre"
    /\ returned >= 1
    /\ \E i, j \in 1..Len(last_batch) :
           i < j /\ last_batch[i].annot_id = last_batch[j].annot_id

\* C4: an insert call returns the number of rows it added, the store before the call
\* is kept as it was, and a highlight whose identifier is present is skipped and not
\* counted.
C4_ReturnedCount ==
    /\ main_pc = "calibre" =>
          /\ returned = Len(annotations) - Len(store_before)
          /\ SubSeq(annotations, 1, Len(store_before)) = store_before
    /\ main_pc = "kobo" =>
          /\ returned = Len(bookmarks) - Len(store_before)
          /\ SubSeq(bookmarks, 1, Len(store_before)) = store_before

C4_Witness ==
    /\ main_pc = "kobo"
    /\ returned >= 1
    /\ returned < Len(last_batch)

\* C5: a second run over the same source highlights inserts nothing: its insert call
\* returns 0 and leaves the store as the first run left it.
C5_ReimportIdempotent ==
    (run >= 2 /\ main_pc = "done") => returned = 0 /\ annotations = store_before

C5_Witness ==
    /\ run = 2
    /\ main_pc = "done"
    /\ Len(last_batch) >= 2
    /\ Len(annotations) >= 2
    /\ returned = 0

\* C6: two translations with the same start address, end address and text get the
\* same identifier, whatever their book, content file and time; the identifier hashes
\* that triple and nothing else, and exchanging start and end changes what is hashed.
C6_StableIdentifier ==
    \A a, b \in translated :
        /\ (a.start = b.start /\ a.end = b.end /\ a.text = b.text) => a.uuid = b.uuid
        /\ (a.start = b.end /\ a.end = b.start /\ a.text = b.text /\ a.start # a.end)
              => a.uuid.name # b.uuid.name

C6_Witness ==
    /\ \E a, b \in translated :
           /\ a.start = b.start /\ a.end = b.end /\ a.text = b.text
           /\ a.book # b.book /\ a.timestamp # b.timestamp
           /\ a.content_path # b.content_path
    /\ \E a, b \in translated :
           a.start = b.end /\ a.end = b.start /\ a.text = b.text /\ a.start # a.end

\* the text nodes a device path counts: no comment, no whitespace-only text, nothing
\* inside a <figure>
SignificantTextNodes(doc) ==
    {n \in NodeIds(doc) :
        /\ doc[n].kind = "NavigableString"
        /\ \E i \in 1..Len(doc[n].text) : doc[n].text[i] \notin WhitespaceChars
        /\ \A i \in 1..Len(parents(doc, n)) : doc[parents(doc, n)[i]].name # "figure"}

\* C9: a device path whose tag index is at most the number of significant text nodes
\* of its document decodes to a text node; HDevice has tag index 1.
C9_DevicePathDecodes ==
    (main_i > 1
     /\ LastVolume.highlights = <<HDevice>>
     /\ 1 <= Cardinality(SignificantTextNodes(Docs[file_doc(Epub, HDevice.content_path)])))
    => Len(last_result) = 1

\* C13: a run in which some volume has no metadata entry still ends with the insert
\* call: every volume has been visited and every highlight translated for the other
\* volumes is in the calibre store.
C13_BookMatchNotFatal ==
    (main_pc \in {"done", "aborted"}
     /\ \E i \in 1..Len(kobo_db) : kobo_db[i].volume \notin metadata)
    => /\ main_pc = "done"
       /\ main_i > Len(kobo_db)
       /\ \A k \in 1..Len(to_insert) :
              \E r \in 1..Len(annotations) :
                  annotations[r].annot_id = to_insert[k].highlight.uuid

\* the path-repair map of the book
fixed_path == get_spine_index_map(Epub).fixed_path

\* C24: a highlight whose content path is a key of the path-repair map is translated
\* with the repaired path: when the highlights before it translate, the list returned
\* for the book holds its record, and the record's spine_name is the repaired path and
\* its spine_index the index of that file.
C24_RepairedPathUsed ==
    main_i > 1 =>
        \A k \in 1..Len(LastVolume.highlights) :
            LET h == LastVolume.highlights[k]
                book_id == application_id(LastVolume.volume)
            IN  (/\ h.content_path \in DOMAIN fixed_path
                 /\ \A j \in 1..(k - 1) :
                        translate_alone(LastVolume.highlights[j], book_id, clock - 1).ok)
                => LET repaired == [h EXCEPT !.content_path = fixed_path[h.content_path]]
                   IN  /\ Len(last_result) >= k
                       /\ last_result[k] = translate_alone(repaired, book_id, clock - 1).value
                       /\ last_result[k].highlight.spine_name = fixed_path[h.content_path]
                       /\ last_result[k].highlight.spine_index
                              = get_spine_index_map(Epub).spine_index_map[
                                    fixed_path[h.content_path]]

\* C25: within a run the calibre store changes in one step only, the insert after the
\* last volume, which ends the run; a step that aborts the run happens while a
\* volume is being processed and leaves the store as it was, whatever has been
\* translated; after the insert nothing happens but the start of another run.
C25_DeferredWriteBack ==
    [][/\ annotations' # annotations =>
              /\ main_pc = "loop" /\ main_i > Len(kobo_db)
              /\ main_pc' = "done" /\ run' = run
       /\ (main_pc = "loop" /\ main_pc' = "done") =>
              annotations' = insert_highlights_into_calibre(annotations, to_insert).store
       /\ (main_pc = "loop" /\ main_pc' = "aborted") =>
              /\ main_i <= Len(kobo_db)
              /\ annotations' = annotations
       /\ main_pc \in {"done", "aborted"} =>
              /\ main_pc' = "loop" /\ run' = run + 1
              /\ annotations' = annotations]_vars

\* the first volume has been translated, the run aborts on the second one and the
\* store holds nothing
C25_Witness ==
    /\ main_pc = "aborted"
    /\ main_i = 2
    /\ to_insert # <<>>
    /\ annotations = <<>>

\* C26: every record parse_kobo_highlights produces has annot_id equal to the uuid of
\* its highlight, so after the insert every record of the batch is in the store
\* under the identifier that was looked up, which is the annot_id written.
C26_LookupKeyIsStoredKey ==
    /\ \A k \in 1..Len(to_insert) : to_insert[k].annot_id = to_insert[k].highlight.uuid
    /\ \A k \in 1..Len(last_result) : last_result[k].annot_id = last_result[k].highlight.uuid
    /\ main_pc = "done" =>
          \A k \in 1..Len(last_batch) :
              \E r \in 1..Len(annotations) :
                  /\ annotations[r].annot_id = last_batch[k].annot_id
                  /\ annotations[r].annot_data.uuid = last_batch[k].annot_id

\* a record was looked up, not found and inserted
C26_Witness ==
    /\ main_pc = "done"
    /\ last_batch # <<>>
    /\ returned >= 1
    /\ Len(annotations) = Len(store_before) + returned

\* the CFI between the parentheses of a path is well formed and its last segment
\* addresses an element
EndsOnElement(soup, path) ==
    /\ search_parens(path).ok
    /\ decode_cfi(soup, search_parens(path).group).ok
    /\ IsTag(soup, decode_cfi(soup, search_parens(path).group).node)

\* C20: when the start or the end CFI of a highlight ends on an element, the
\* conversion of that CFI raises and the list returned for the book holds no
\* highlight with that highlight's identifier.
C20_ElementTarget ==
    main_i > 1 =>
        \A k \in 1..Len(LastVolume.highlights) :
            LET h == LastVolume.highlights[k]
                soup == Docs[file_doc(Epub, h.content_path)]
            IN  \A path \in {h.start_path, h.end_path} :
                    (is_file(Epub, h.content_path) /\ EndsOnElement(soup, path)) =>
                        /\ ~convert_cfi_system1_to_system2(soup, search_parens(path).group).ok
                        /\ \A r \in 1..Len(last_result) :
                               last_result[r].highlight.uuid.name
                                   # search_parens(h.start_path).group \o <<"*">>
                                     \o search_parens(h.end_path).group \o <<"*">>
                                     \o h.text \o <<")">>

C20_Witness ==
    /\ main_i > 1
    /\ LastVolume.highlights = <<HGood, HElement>>
    /\ Len(last_result) = 1

---------------------------------------------------------------------------
(* The CFI engine: encode a text node and offset, then decode the string *)

TextNodes(doc) == {n \in NodeIds(doc) : doc[n].kind = "NavigableString"}

NoResult == [ok |-> FALSE, node |-> 0, has_offset |-> FALSE, offset |-> 0]

CfiIdle ==
    /\ cfi_pc = "idle" /\ cfi_doc = 1 /\ cfi_node = 0 /\ cfi_offset = 0
    /\ cfi_str = <<>> /\ cfi_result = NoResult /\ cfi_steps = <<>> /\ cfi_trace = <<>>

CfiStart ==
    /\ cfi_pc = "start"
    /\ cfi_doc \in 1..Len(Docs)
    /\ cfi_node = 0
    /\ cfi_offset = 0
    /\ cfi_str = <<>>
    /\ cfi_result = NoResult
    /\ cfi_steps = <<>>
    /\ cfi_trace = <<>>

EncodeCfi ==
    /\ cfi_pc = "start"
    /\ \E n \in TextNodes(Docs[cfi_doc]) : \E k \in 0..Len(Docs[cfi_doc][n].text) :
          /\ cfi_node' = n
          /\ cfi_offset' = k
          /\ cfi_str' = encode_cfi(Docs[cfi_doc], n, k)
    /\ cfi_pc' = "encoded"
    /\ UNCHANGED <<cfi_doc, cfi_result, cfi_steps, cfi_trace>>
    /\ UNCHANGED notCfi

DecodeCfi ==
    /\ cfi_pc = "encoded"
    /\ cfi_result' = decode_cfi(Docs[cfi_doc], cfi_str)
    /\ cfi_pc' = "decoded"
    /\ UNCHANGED <<cfi_doc, cfi_node, cfi_offset, cfi_str, cfi_steps, cfi_trace>>
    /\ UNCHANGED notCfi

MaxPathLen == 3

MaxStep == 4

\* the step lists of the CFIs handed to the decoder
Paths == UNION {[1..n -> 0..MaxStep] : n \in 1..MaxPathLen}

\* the segments from the i-th on; the segment numbered `bracket` carries [id1]
RECURSIVE PathText(_, _, _)
PathText(steps, i, bracket) ==
    IF i > Len(steps) THEN <<>>
    ELSE <<"/">> \o format_int(steps[i])
         \o (IF i = bracket THEN <<"[", "i", "d", "1", "]">> ELSE <<>>)
         \o PathText(steps, i + 1, bracket)

\* a CFI as it stands between the parentheses of a Kobo path: /1/4/1:3
SystemCfi(steps, bracket, offset) ==
    PathText(steps, 1, bracket) \o <<":">> \o format_int(offset)

\* convert_cfi_system1_to_system2 up to the node it finds: parse_system1_cfi, then
\* find_node_by_system1_path; cfi_trace holds the values of `current`, the one before
\* the loop first and 0 from the iteration that raises
FindNode ==
    /\ cfi_pc = "start"
    /\ \E steps \in Paths : \E bracket \in 0..(Len(steps) - 1) :
       \E cfi \in {SystemCfi(steps, bracket, 1)} :
       \E parsed \in {parse_system1_cfi(cfi)} :
          /\ cfi_str' = cfi
          /\ cfi_steps' = parsed.steps
          /\ cfi_trace' =
                 IF parsed.ok
                 THEN [i \in 1..(Len(parsed.steps) + 1) |->
                          find_node_by_system1_path(Docs[cfi_doc],
                                                    SubSeq(parsed.steps, 1, i - 1))]
                 ELSE <<>>
          /\ cfi_result' = decode_cfi(Docs[cfi_doc], cfi)
    /\ cfi_pc' = "found"
    /\ UNCHANGED <<cfi_doc, cfi_node, cfi_offset>>
    /\ UNCHANGED notCfi

CfiNext == EncodeCfi \/ DecodeCfi \/ FindNode

\* C1: decoding the string encode_cfi produced for a text node n and an offset k
\* gives back the node n and the offset k.
C1_RoundTrip ==
    cfi_pc = "decoded" =>
        /\ cfi_result.ok
        /\ cfi_result.node = cfi_node
        /\ cfi_result.has_offset
        /\ cfi_result.offset = cfi_offset

\* the BeautifulSoup object, the ancestors of n from the outermost in, and n
Chain(doc, n) == Reverse(parents(doc, n)) \o <<n>>

\* the text between the slashes of a CFI, without the empty text before the first
Segments(cfi) == Tail(split(cfi, "/"))

\* the segment of the ancestor Chain(doc, n)[i + 1]: twice the position that
\* element itself has among the element children of its parent
AncestorSegment(doc, n, i) ==
    format_int(2 * IndexOf(tag_children(doc, Chain(doc, n)[i]), Chain(doc, n)[i + 1]))

\* C15: encode_cfi finds the target node and each of its ancestors among the siblings
\* by identity: every emitted index is the position of that very node in the list the
\* encoder searches, also when an earlier sibling has equal content.
C15_NodeIdentity ==
    cfi_pc = "encoded" =>
        LET doc == Docs[cfi_doc]
            depth == Len(Chain(doc, cfi_node)) - 1
            segments == Segments(cfi_str)
        IN  /\ Len(segments) = depth
            /\ \A i \in 1..(depth - 1) : segments[i] = AncestorSegment(doc, cfi_node, i)
            /\ segments[depth] =
                   format_int(IndexOf(doc[parent(doc, cfi_node)].children, cfi_node))
                   \o <<":">> \o format_int(cfi_offset)

\* C16: the CFI of a text node has one segment for each ancestor element, outermost
\* first, before its final segment, and the segment of an ancestor is 2 * p, p being
\* the ancestor's position among the element children of its own parent.
C16_AncestorSegments ==
    cfi_pc = "encoded" =>
        LET doc == Docs[cfi_doc]
            ancestors == Len(Chain(doc, cfi_node)) - 2
            segments == Segments(cfi_str)
        IN  /\ Len(segments) = ancestors + 1
            /\ SubSeq(segments, 1, ancestors)
                   = [i \in 1..ancestors |-> AncestorSegment(doc, cfi_node, i)]

\* the siblings the final segment counts: elements and text nodes
ElementAndTextSiblings(doc, n) ==
    SelectSeq(doc[parent(doc, n)].children,
              LAMBDA c : doc[c].kind \in {"Tag", "NavigableString"})

\* C17: the CFI of a text node ends with /p:offset, p being the node's position among
\* the element and text children of its parent; the text of <p> in the scenario
\* document with offset 13 gives a CFI that ends with /1:13.
C17_FinalSegment ==
    cfi_pc = "encoded" =>
        LET doc == Docs[cfi_doc]
            segments == Segments(cfi_str)
        IN  /\ segments # <<>>
            /\ segments[Len(segments)] =
                   format_int(IndexOf(ElementAndTextSiblings(doc, cfi_node), cfi_node))
                   \o <<":">> \o format_int(cfi_offset)
            /\ (doc = DocScenario /\ cfi_offset = 13) =>
                   segments[Len(segments)] = <<"1", ":", "1", "3">>

\* the children a step is counted among: those of the element `current`, or of the
\* parent of the text node `current`, comments and processing instructions left out
StepChildren(doc, current) ==
    SelectSeq(doc[IF IsTag(doc, current) THEN current ELSE parent(doc, current)].children,
              LAMBDA c : doc[c].kind \in {"Tag", "NavigableString"})

C21_RangeCheck ==
    (cfi_pc = "found" /\ cfi_trace # <<>>) =>
        \A i \in 1..Len(cfi_steps) :
            (/\ cfi_trace[i] # 0
             /\ \/ cfi_steps[i] < 1
                \/ cfi_steps[i] > Len(StepChildren(Docs[cfi_doc], cfi_trace[i])))
            => /\ \A j \in (i + 1)..Len(cfi_trace) : cfi_trace[j] = 0
               /\ ~cfi_result.ok
               /\ cfi_result.node = 0

C21_Witness ==
    /\ cfi_pc = "found"
    /\ Len(cfi_steps) = 3
    /\ cfi_trace[2] # 0
    /\ cfi_steps[2] = 0
    /\ cfi_trace[3] = 0
    /\ ~cfi_result.ok

\* the children of the node a step is taken from, in document order
RawChildren(doc, current) ==
    doc[IF IsTag(doc, current) THEN current ELSE parent(doc, current)].children

\* the number of elements and text nodes among the first pos raw children
CountedUpTo(doc, current, pos) ==
    Cardinality({j \in 1..pos :
                    doc[RawChildren(doc, current)[j]].kind \in {"Tag", "NavigableString"}})

\* C22: the child a step v resolves to is an element or a text node, and v is the
\* number of element and text children up to it, whitespace-only text and <figure>
\* counted, comments and processing instructions not; a step fails only when v is
\* outside that count.
C22_ChildCounting ==
    (cfi_pc = "found" /\ cfi_trace # <<>>) =>
        \A i \in 1..Len(cfi_steps) :
            LET doc == Docs[cfi_doc]
                current == cfi_trace[i]
                next == cfi_trace[i + 1]
                pos == IndexOf(RawChildren(doc, current), next)
            IN  current # 0 =>
                    IF next # 0
                    THEN /\ pos > 0
                         /\ doc[next].kind \in {"Tag", "NavigableString"}
                         /\ cfi_steps[i] = CountedUpTo(doc, current, pos)
                    ELSE \/ cfi_steps[i] < 1
                         \/ cfi_steps[i] >
                               CountedUpTo(doc, current, Len(RawChildren(doc, current)))

\* in DocMixed the fourth child of <body> is the second <p>: the comment is not
\* counted, the <figure> and the blank text are
C22_Witness ==
    /\ cfi_pc = "found"
    /\ Docs[cfi_doc] = DocMixed
    /\ cfi_steps = <<1, 1, 4>>
    /\ cfi_result.ok
    /\ cfi_result.node = 11

\* the number of levels between the BeautifulSoup object and n
Depth(doc, n) == Len(parents(doc, n))

\* the steps among the first k that were taken from a text node
StepsFromText(doc, k) == {i \in 1..k : cfi_trace[i] # 0 /\ ~IsTag(doc, cfi_trace[i])}

\* C27 as amended: a step taken from an element goes one level down; a step taken
\* from a text node is not rejected, it is resolved among the children of the text
\* node's parent and stays on the text node's level; the node returned for n steps
\* is n levels below the root less the steps taken from a text node.
C27_LevelsPerStep ==
    (cfi_pc = "found" /\ cfi_trace # <<>>) =>
        LET doc == Docs[cfi_doc]
        IN  /\ \A i \in 1..Len(cfi_steps) :
                   LET current == cfi_trace[i]
                       next == cfi_trace[i + 1]
                   IN  current # 0 =>
                           IF IsTag(doc, current)
                           THEN next # 0 => parent(doc, next) = current
                           ELSE (1 <= cfi_steps[i]
                                 /\ cfi_steps[i] <= Len(StepChildren(doc, current)))
                                => /\ next # 0
                                   /\ parent(doc, next) = parent(doc, current)
            /\ cfi_result.ok =>
                   Depth(doc, cfi_result.node)
                       = Len(cfi_steps) - Cardinality(StepsFromText(doc, Len(cfi_steps)))

\* in DocInline /1/1 is the text "ab" of <body>, and the step 2 after it is <b>
C27_Witness ==
    /\ cfi_pc = "found"
    /\ Docs[cfi_doc] = DocInline
    /\ cfi_steps = <<1, 1, 2>>
    /\ cfi_trace = <<1, 2, 3, 4>>
    /\ cfi_result.ok

\* C27: the node returned for a path of n steps is n levels below the root, and a
\* path with a step taken from a text node is a decode failure.
C27_OneLevelPerStep ==
    (cfi_pc = "found" /\ cfi_trace # <<>>) =>
        /\ cfi_result.ok => Depth(Docs[cfi_doc], cfi_result.node) = Len(cfi_steps)
        /\ StepsFromText(Docs[cfi_doc], Len(cfi_steps)) # {} => ~cfi_result.ok

\* a CFI without its bracketed identifier
StripBrackets(cfi) ==
    IF IndexOf(cfi, "[") = 0 THEN cfi
    ELSE SubSeq(cfi, 1, IndexOf(cfi, "[") - 1) \o SubSeq(cfi, IndexOf(cfi, "]") + 1, Len(cfi))

\* C19: a CFI with a bracketed identifier on an intermediate segment is parsed, and
\* decodes to the node and the offset of the same CFI without the bracket.
C19_BracketIgnored ==
    (cfi_pc = "found" /\ IndexOf(cfi_str, "[") > 0) =>
        /\ cfi_trace # <<>>
        /\ cfi_result = decode_cfi(Docs[cfi_doc], StripBrackets(cfi_str))

---------------------------------------------------------------------------
(* Specifications *)

InitCfi == CfiStart /\ SentIdle /\ TokIdle /\ OffIdle /\ MainIdle

SpecCfi == InitCfi /\ [][CfiNext]_vars

InitSent == SentStart /\ CfiIdle /\ TokIdle /\ OffIdle /\ MainIdle

SpecSent == InitSent /\ [][SentNext]_vars

InitOff == OffStart /\ CfiIdle /\ SentIdle /\ TokIdle /\ MainIdle

SpecOff == InitOff /\ [][OffNext]_vars

Init == MainStart /\ CfiIdle /\ SentIdle /\ TokIdle /\ OffIdle

Spec == Init /\ [][Next]_vars

InitDb == DbStart /\ CfiIdle /\ SentIdle /\ TokIdle /\ OffIdle

SpecDb == InitDb /\ [][DbNext]_vars

InitTok == TokStart /\ CfiIdle /\ SentIdle /\ OffIdle /\ MainIdle

SpecTok == InitTok /\ [][TokNext]_vars

\* tokenize_epub_sentences is straight-line sequential code with no blocking call:
\* the interpreter takes its next step whenever there is one
SpecTokFair == SpecTok /\ WF_vars(TokNext)

====
